---- MODULE Spec2Model ----
(***************************************************************************)
(* A model of scripts/wegl-utils.js: the WebGL helper functions            *)
(* makeShader, makeProgram, makeProgramFromScripts, createAttribute,       *)
(* createBuffer, clearCanvas and drawCanvas, run against a recording       *)
(* graphics context.  Every function is an operator that threads a         *)
(* "machine" m = [gl, calls, ret, err] through the context calls it makes, *)
(* in the order the code makes them; every action of the state machine is  *)
(* one whole call of one function.                                         *)
(*                                                                         *)
(*   gl        the state of the graphics context                           *)
(*   document  the script elements of the page, by id                      *)
(*   last      the last call: its function, arguments, the context calls   *)
(*             it made, its return value and the error it threw            *)
(*   draws     the last drawCanvas calls made in succession (at most two)  *)
(***************************************************************************)
EXTENDS Integers, Sequences, FiniteSets, TLC

VARIABLES gl, document, last, draws

vars == <<gl, document, last, draws>>

(***************************************************************************)
(* Bounds of the model: how many shaders, programs and buffers the direct  *)
(* calls of makeShader, makeProgram(FromScripts) and createBuffer may      *)
(* create in a run, and how many drawCanvas calls may create theirs.       *)
(***************************************************************************)
MaxShaders == 3
MaxPrograms == 1
MaxBuffers == 2
MaxDraws == 2

(***************************************************************************)
(* JavaScript values.  Every value is a record of the same shape so that   *)
(* any two values can be compared.                                         *)
(***************************************************************************)
Num(n) == [t |-> "number", n |-> n, s |-> ""]
Str(s) == [t |-> "string", n |-> 0, s |-> s]
Enum(s) == [t |-> "enum", n |-> 0, s |-> s]
Handle(kind, id) == [t |-> kind, n |-> id, s |-> ""]
F32(name, len) == [t |-> "Float32Array", n |-> len, s |-> name]
Undefined == [t |-> "undefined", n |-> 0, s |-> ""]
Null == [t |-> "null", n |-> 0, s |-> ""]
True == [t |-> "boolean", n |-> 1, s |-> ""]
False == [t |-> "boolean", n |-> 0, s |-> ""]
Bool(b) == IF b THEN True ELSE False

\* JavaScript truthiness of a value, as in `if (x)` and `!x`
Truthy(v) ==
  CASE v.t = "undefined" -> FALSE
    [] v.t = "null" -> FALSE
    [] v.t = "boolean" -> v.n = 1
    [] v.t = "number" -> v.n # 0
    [] v.t = "string" -> v.s # ""
    [] OTHER -> TRUE

\* a default parameter: the default replaces an argument that is undefined
Default(v, d) == IF v.t = "undefined" THEN d ELSE v

\* the product of two numbers
Mul(a, b) == Num(a.n * b.n)

\* property read o.k of an object literal: undefined when the key is absent
Get(o, k) == IF k \in DOMAIN o.props THEN o.props[k] ELSE Undefined

Obj(props) == [t |-> "object", props |-> props]
Arr(items) == [t |-> "array", items |-> items]
UndefinedArg == [t |-> "undefined", items |-> <<>>, props |-> <<>>]
NullArg == [t |-> "null", items |-> <<>>, props |-> <<>>]

(***************************************************************************)
(* Errors.  A message is kept in its parts: the fixed text, the shader     *)
(* kind interpolated into it and the log value appended to it.             *)
(***************************************************************************)
NoError == [name |-> "none", msg |-> "", kind |-> "", log |-> Undefined]
Error(msg, kind, log) == [name |-> "Error", msg |-> msg, kind |-> kind, log |-> log]
TypeError(msg) == [name |-> "TypeError", msg |-> msg, kind |-> "", log |-> Undefined]

(***************************************************************************)
(* The machine threaded through the code.                                  *)
(***************************************************************************)
Failed(m) == m.err # NoError
Return(m, v) == [m EXCEPT !.ret = v]
Throw(m, e) == [m EXCEPT !.ret = Undefined, !.err = e]
Call(m, op, args, ret, g) ==
  [m EXCEPT !.gl = g, !.ret = ret,
            !.calls = Append(@, [op |-> op, args |-> args, ret |-> ret])]

\* sequencing: the machine after one statement, handed to the statements
\* that follow it
Then(m, Rest(_)) == CHOOSE r \in {Rest(x) : x \in {m}} : TRUE

(***************************************************************************)
(* The driver behind the recording context: what it makes of each shader   *)
(* source text.                                                            *)
(***************************************************************************)
Compiles(src) == src \notin {"bad", ""}
CompileLog(src) == IF Compiles(src) THEN "" ELSE "0:1: syntax error"
Links(vsrc, fsrc) == vsrc # "f_nolink" /\ fsrc # "f_nolink"
Validates(vsrc, fsrc) == vsrc # "f_noval" /\ fsrc # "f_noval"
AttribLoc(name) ==
  CASE name = "pos" -> 0
    [] name = "uv" -> 1
    [] OTHER -> -1
CanvasWidth == 300
CanvasHeight == 150

(***************************************************************************)
(* The context calls the code makes.  Each returns the machine after the   *)
(* call, with the call recorded and its return value in ret.               *)
(***************************************************************************)
NewShader(type) == [type |-> type.s, src |-> "", status |-> FALSE, log |-> "", live |-> TRUE]

gl_createShader(m, type) ==
  LET id == Len(m.gl.shaders) + 1
  IN Call(m, "createShader", <<type>>, Handle("shader", id),
          [m.gl EXCEPT !.shaders = Append(@, NewShader(type))])

gl_shaderSource(m, sh, src) ==
  Call(m, "shaderSource", <<sh, src>>, Undefined,
       [m.gl EXCEPT !.shaders[sh.n].src = src.s])

gl_compileShader(m, sh) ==
  LET src == m.gl.shaders[sh.n].src
  IN Call(m, "compileShader", <<sh>>, Undefined,
          [m.gl EXCEPT !.shaders[sh.n].status = Compiles(src),
                       !.shaders[sh.n].log = CompileLog(src)])

gl_getShaderParameter(m, sh, pname) ==
  Call(m, "getShaderParameter", <<sh, pname>>, Bool(m.gl.shaders[sh.n].status), m.gl)

gl_deleteShader(m, sh) ==
  Call(m, "deleteShader", <<sh>>, Undefined,
       [m.gl EXCEPT !.shaders[sh.n].live = FALSE])

\* The log of a live shader is the one compileShader recorded.  The log of a
\* deleted shader is whatever the context makes of a released handle: null,
\* or the log when the context happens to retain it (gl.retainsLog).
gl_getShaderInfoLog(m, sh) ==
  LET s == m.gl.shaders[sh.n]
      log == IF s.live \/ m.gl.retainsLog THEN Str(s.log) ELSE Null
  IN Call(m, "getShaderInfoLog", <<sh>>, log, m.gl)

(***************************************************************************)
(* makeShader                                                              *)
(***************************************************************************)
ShaderKind(shaderType) == IF shaderType = Enum("VERTEX_SHADER") THEN "vertex" ELSE "fragment"

\* a variant that does not release the shader that failed to compile
makeShader_leaky(m, shaderSource, shaderType) ==
  Then(gl_createShader(m, shaderType), LAMBDA m1 :
  Then(gl_shaderSource(m1, m1.ret, shaderSource), LAMBDA m2 :
  Then(gl_compileShader(m2, m1.ret), LAMBDA m3 :
  Then(gl_getShaderParameter(m3, m1.ret, Enum("COMPILE_STATUS")), LAMBDA m4 :
    IF ~Truthy(m4.ret)
    THEN Then(gl_getShaderInfoLog(m4, m1.ret), LAMBDA m6 :
           Throw(m6, Error("ERROR compiling ${kind} shader: ${log}",
                           ShaderKind(shaderType), m6.ret)))
    ELSE Return(m4, m1.ret)))))

\* m1.ret is newShader
makeShader(m, shaderSource, shaderType) ==
  Then(gl_createShader(m, shaderType), LAMBDA m1 :
  Then(gl_shaderSource(m1, m1.ret, shaderSource), LAMBDA m2 :
  Then(gl_compileShader(m2, m1.ret), LAMBDA m3 :
  Then(gl_getShaderParameter(m3, m1.ret, Enum("COMPILE_STATUS")), LAMBDA m4 :
    IF ~Truthy(m4.ret)
    THEN Then(gl_deleteShader(m4, m1.ret), LAMBDA m5 :
         Then(gl_getShaderInfoLog(m5, m1.ret), LAMBDA m6 :
           Throw(m6, Error("ERROR compiling ${kind} shader: ${log}",
                           ShaderKind(shaderType), m6.ret))))
    ELSE Return(m4, m1.ret)))))

(***************************************************************************)
(* Program calls of the context.                                           *)
(***************************************************************************)
NewProgram == [vs |-> 0, fs |-> 0, linkStatus |-> FALSE, validateStatus |-> FALSE, log |-> ""]

SrcOf(g, id) == IF id = 0 THEN "" ELSE g.shaders[id].src

gl_createProgram(m) ==
  LET id == Len(m.gl.programs) + 1
  IN Call(m, "createProgram", <<>>, Handle("program", id),
          [m.gl EXCEPT !.programs = Append(@, NewProgram)])

gl_attachShader(m, program, shader) ==
  Call(m, "attachShader", <<program, shader>>, Undefined,
       IF m.gl.shaders[shader.n].type = "VERTEX_SHADER"
       THEN [m.gl EXCEPT !.programs[program.n].vs = shader.n]
       ELSE [m.gl EXCEPT !.programs[program.n].fs = shader.n])

gl_linkProgram(m, program) ==
  LET p == m.gl.programs[program.n]
      ok == /\ p.vs # 0 /\ p.fs # 0
            /\ m.gl.shaders[p.vs].status /\ m.gl.shaders[p.fs].status
            /\ Links(SrcOf(m.gl, p.vs), SrcOf(m.gl, p.fs))
  IN Call(m, "linkProgram", <<program>>, Undefined,
          [m.gl EXCEPT !.programs[program.n].linkStatus = ok,
                       !.programs[program.n].log = IF ok THEN "" ELSE "link failed"])

gl_validateProgram(m, program) ==
  LET p == m.gl.programs[program.n]
      ok == p.linkStatus /\ Validates(SrcOf(m.gl, p.vs), SrcOf(m.gl, p.fs))
  IN Call(m, "validateProgram", <<program>>, Undefined,
          [m.gl EXCEPT !.programs[program.n].validateStatus = ok,
                       !.programs[program.n].log = IF ok THEN "" ELSE "validation failed"])

gl_getProgramParameter(m, program, pname) ==
  LET p == m.gl.programs[program.n]
  IN Call(m, "getProgramParameter", <<program, pname>>,
          IF pname = Enum("LINK_STATUS") THEN Bool(p.linkStatus) ELSE Bool(p.validateStatus),
          m.gl)

gl_getProgramInfoLog(m, program) ==
  Call(m, "getProgramInfoLog", <<program>>, Str(m.gl.programs[program.n].log), m.gl)

(***************************************************************************)
(* makeProgram                                                             *)
(***************************************************************************)
\* the validation step of makeProgram, on the linked program
validated(m, program) ==
  Then(gl_validateProgram(m, program), LAMBDA m7 :
  Then(gl_getProgramParameter(m7, program, Enum("VALIDATE_STATUS")), LAMBDA m8 :
    IF ~Truthy(m8.ret)
    THEN Then(gl_getProgramInfoLog(m8, program), LAMBDA m9 :
           Throw(m9, Error("ERROR validating program: ", "", m9.ret)))
    ELSE Return(m8, program)))

\* a variant that validates whatever the validate argument says
makeProgram_alwaysValidate(m, vertexShader, fragmentShader, validateArg) ==
  Then(gl_createProgram(m), LAMBDA m1 :
  Then(gl_attachShader(m1, m1.ret, vertexShader), LAMBDA m2 :
  Then(gl_attachShader(m2, m1.ret, fragmentShader), LAMBDA m3 :
  Then(gl_linkProgram(m3, m1.ret), LAMBDA m4 :
  Then(gl_getProgramParameter(m4, m1.ret, Enum("LINK_STATUS")), LAMBDA m5 :
    IF ~Truthy(m5.ret)
    THEN Then(gl_getProgramInfoLog(m5, m1.ret), LAMBDA m6 :
           Throw(m6, Error("ERROR linking program: ", "", m6.ret)))
    ELSE validated(m5, m1.ret))))))

\* m1.ret is program
makeProgram(m, vertexShader, fragmentShader, validateArg) ==
  Then(gl_createProgram(m), LAMBDA m1 :
  Then(gl_attachShader(m1, m1.ret, vertexShader), LAMBDA m2 :
  Then(gl_attachShader(m2, m1.ret, fragmentShader), LAMBDA m3 :
  Then(gl_linkProgram(m3, m1.ret), LAMBDA m4 :
  Then(gl_getProgramParameter(m4, m1.ret, Enum("LINK_STATUS")), LAMBDA m5 :
    IF ~Truthy(m5.ret)
    THEN Then(gl_getProgramInfoLog(m5, m1.ret), LAMBDA m6 :
           Throw(m6, Error("ERROR linking program: ", "", m6.ret)))
    ELSE IF Truthy(Default(validateArg, True))
         THEN validated(m5, m1.ret)
         ELSE Return(m5, m1.ret))))))

(***************************************************************************)
(* makeProgramFromScripts                                                  *)
(***************************************************************************)
\* a variant that reads a missing element as an empty shader source
textContent_lenient(m, id) ==
  IF id.s \in DOMAIN document
  THEN Return(m, Str(document[id.s]))
  ELSE Return(m, Str(""))

\* document.querySelector(`#${id}`).textContent: the text of the element, or
\* a TypeError from reading a property of null when no element has the id
textContent(m, id) ==
  IF id.s \in DOMAIN document
  THEN Return(m, Str(document[id.s]))
  ELSE Throw(m, TypeError("Cannot read properties of null (reading 'textContent')"))

\* t1.ret and t2.ret are the source texts, m1.ret is vertexShader and m2.ret
\* is fragmentShader
makeProgramFromScripts(m, shaderIds) ==
  Then(textContent(m, shaderIds.items[1]), LAMBDA t1 :
    IF Failed(t1) THEN t1 ELSE
  Then(makeShader(t1, t1.ret, Enum("VERTEX_SHADER")), LAMBDA m1 :
    IF Failed(m1) THEN m1 ELSE
  Then(textContent(m1, shaderIds.items[2]), LAMBDA t2 :
    IF Failed(t2) THEN t2 ELSE
  Then(makeShader(t2, t2.ret, Enum("FRAGMENT_SHADER")), LAMBDA m2 :
    IF Failed(m2) THEN m2 ELSE
  makeProgram(m2, m1.ret, m2.ret, Undefined)))))

(***************************************************************************)
(* createAttribute                                                         *)
(***************************************************************************)
BYTES_PER_ELEMENT == 4

createAttribute_unscaled(name, numElements, numVertex, type, offsetArg, typeSizeArg, normalizedArg) ==
  LET offset == Default(offsetArg, Num(0))
      typeSize == Default(typeSizeArg, Num(BYTES_PER_ELEMENT))
      normalized == Default(normalizedArg, False)
  IN [name |-> name,
      size |-> numElements,
      stride |-> Mul(numVertex, typeSize),
      offset |-> offset,
      type |-> type,
      normalized |-> normalized]

createAttribute(name, numElements, numVertex, type, offsetArg, typeSizeArg, normalizedArg) ==
  LET offset == Default(offsetArg, Num(0))
      typeSize == Default(typeSizeArg, Num(BYTES_PER_ELEMENT))
      normalized == Default(normalizedArg, False)
  IN [name |-> name,
      size |-> numElements,
      stride |-> Mul(numVertex, typeSize),
      offset |-> Mul(offset, typeSize),
      type |-> type,
      normalized |-> normalized]

(***************************************************************************)
(* Buffer and attribute calls of the context.                              *)
(***************************************************************************)
Locations == {0, 1}

gl_createBuffer(m) ==
  LET id == Len(m.gl.buffers) + 1
  IN Call(m, "createBuffer", <<>>, Handle("buffer", id),
          [m.gl EXCEPT !.buffers = Append(@, Undefined)])

gl_bindBuffer(m, target, buffer) ==
  Call(m, "bindBuffer", <<target, buffer>>, Undefined,
       [m.gl EXCEPT !.arrayBuffer = buffer.n])

gl_bufferData(m, target, data, usage) ==
  Call(m, "bufferData", <<target, data, usage>>, Undefined,
       IF m.gl.arrayBuffer # 0 /\ data.t = "Float32Array"
       THEN [m.gl EXCEPT !.buffers[m.gl.arrayBuffer] = data]
       ELSE m.gl)

gl_getAttribLocation(m, program, name) ==
  Call(m, "getAttribLocation", <<program, name>>, Num(AttribLoc(name.s)), m.gl)

\* a location the context does not know (-1) is an INVALID_VALUE: no change
gl_vertexAttribPointer(m, loc, size, type, normalized, stride, offset) ==
  Call(m, "vertexAttribPointer", <<loc, size, type, normalized, stride, offset>>, Undefined,
       IF loc.n \in Locations
       THEN [m.gl EXCEPT !.pointers[loc.n] = <<size, type, normalized, stride, offset>>]
       ELSE m.gl)

gl_enableVertexAttribArray(m, loc) ==
  Call(m, "enableVertexAttribArray", <<loc>>, Undefined,
       IF loc.n \in Locations
       THEN [m.gl EXCEPT !.enabled = @ \cup {loc.n}]
       ELSE m.gl)

(***************************************************************************)
(* createBuffer                                                            *)
(***************************************************************************)
\* the body of the forEach callback, for one attribute, without the enable
configureAttr_noEnable(m, program, attr) ==
  Then(gl_getAttribLocation(m, program, attr.name), LAMBDA m1 :
    gl_vertexAttribPointer(m1, m1.ret, attr.size, attr.type,
                           attr.normalized, attr.stride, attr.offset))

\* the body of the forEach callback, for one attribute; m1.ret is attrLocation
configureAttr(m, program, attr) ==
  Then(gl_getAttribLocation(m, program, attr.name), LAMBDA m1 :
  Then(gl_vertexAttribPointer(m1, m1.ret, attr.size, attr.type,
                              attr.normalized, attr.stride, attr.offset), LAMBDA m2 :
    gl_enableVertexAttribArray(m2, m1.ret)))

RECURSIVE forEachAttr(_, _, _, _)
forEachAttr(m, program, items, i) ==
  IF i > Len(items) THEN m
  ELSE Then(configureAttr(m, program, items[i]), LAMBDA m1 :
         forEachAttr(m1, program, items, i + 1))

\* attributes.forEach(...): a TypeError when attributes is no array
forEach(m, program, attributes) ==
  IF attributes.t # "array"
  THEN Throw(m, TypeError("Cannot read properties of null (reading 'forEach')"))
  ELSE Then(forEachAttr(m, program, attributes.items, 1), LAMBDA m4 : Return(m4, Undefined))

\* a variant that keeps the buffer bound by an earlier call instead of making one
createBuffer_reuse(m, program, bufferData, attributes, typeArg, bufferDataTypeArg) ==
  IF m.gl.arrayBuffer # 0
  THEN Then(gl_bufferData(m, Default(typeArg, Enum("ARRAY_BUFFER")), bufferData,
                          Default(bufferDataTypeArg, Enum("STATIC_DRAW"))), LAMBDA m3 :
         forEach(m3, program, attributes))
  ELSE Then(gl_createBuffer(m), LAMBDA m1 :
       Then(gl_bindBuffer(m1, Default(typeArg, Enum("ARRAY_BUFFER")), m1.ret), LAMBDA m2 :
       Then(gl_bufferData(m2, Default(typeArg, Enum("ARRAY_BUFFER")), bufferData,
                          Default(bufferDataTypeArg, Enum("STATIC_DRAW"))), LAMBDA m3 :
         forEach(m3, program, attributes))))

\* m1.ret is buffer
createBuffer(m, program, bufferData, attributes, typeArg, bufferDataTypeArg) ==
  Then(gl_createBuffer(m), LAMBDA m1 :
  Then(gl_bindBuffer(m1, Default(typeArg, Enum("ARRAY_BUFFER")), m1.ret), LAMBDA m2 :
  Then(gl_bufferData(m2, Default(typeArg, Enum("ARRAY_BUFFER")), bufferData,
                     Default(bufferDataTypeArg, Enum("STATIC_DRAW"))), LAMBDA m3 :
    forEach(m3, program, attributes))))

(***************************************************************************)
(* clearCanvas                                                             *)
(***************************************************************************)
gl_clearColor(m, r, g, b, a) ==
  Call(m, "clearColor", <<r, g, b, a>>, Undefined,
       [m.gl EXCEPT !.clearColor = <<r, g, b, a>>])

gl_clear(m, mask) ==
  Call(m, "clear", <<mask>>, Undefined, m.gl)

clearCanvas(m, color) ==
  Then(gl_clearColor(m, Get(color, "r"), Get(color, "g"), Get(color, "b"), Get(color, "a")),
       LAMBDA m1 : gl_clear(m1, Enum("COLOR_BUFFER_BIT")))

(***************************************************************************)
(* drawCanvas                                                              *)
(***************************************************************************)
gl_viewport(m, x, y, w, h) ==
  Call(m, "viewport", <<x, y, w, h>>, Undefined,
       [m.gl EXCEPT !.viewport = <<x, y, w, h>>])

gl_useProgram(m, program) ==
  Call(m, "useProgram", <<program>>, Undefined,
       [m.gl EXCEPT !.currentProgram = program.n])

gl_drawArrays(m, mode, first, count) ==
  Call(m, "drawArrays", <<mode, first, count>>, Undefined, m.gl)

DefaultArg(a, d) == IF a.t = "undefined" THEN d ELSE a
DefaultShaderIds == Arr(<<Str("vertexShader"), Str("fragmentShader")>>)
DefaultClearColor == Obj([r |-> Num(0), g |-> Num(0), b |-> Num(0), a |-> Num(0)])

\* a variant that goes on to draw after a failed buffer upload
drawCanvas_carryOn(m, bufferDataArg, attributesArg, shaderIdsArg, clearColorArg) ==
  Then(makeProgramFromScripts(m, DefaultArg(shaderIdsArg, DefaultShaderIds)), LAMBDA m1 :
    IF Failed(m1) THEN m1 ELSE
  Then(createBuffer(m1, m1.ret, Default(bufferDataArg, Null),
                    DefaultArg(attributesArg, Arr(<<>>)), Undefined, Undefined), LAMBDA m2 :
  Then(gl_viewport(m2, Num(0), Num(0), Num(CanvasWidth), Num(CanvasHeight)), LAMBDA m3 :
  Then(clearCanvas(m3, DefaultArg(clearColorArg, DefaultClearColor)), LAMBDA m4 :
  Then(gl_useProgram(m4, m1.ret), LAMBDA m5 :
    gl_drawArrays(m5, Enum("TRIANGLE_STRIP"), Num(0), Num(4)))))))

\* a variant that activates the program before clearing
drawCanvas_useFirst(m, bufferDataArg, attributesArg, shaderIdsArg, clearColorArg) ==
  Then(makeProgramFromScripts(m, DefaultArg(shaderIdsArg, DefaultShaderIds)), LAMBDA m1 :
    IF Failed(m1) THEN m1 ELSE
  Then(createBuffer(m1, m1.ret, Default(bufferDataArg, Null),
                    DefaultArg(attributesArg, Arr(<<>>)), Undefined, Undefined), LAMBDA m2 :
    IF Failed(m2) THEN m2 ELSE
  Then(gl_viewport(m2, Num(0), Num(0), Num(CanvasWidth), Num(CanvasHeight)), LAMBDA m3 :
  Then(gl_useProgram(m3, m1.ret), LAMBDA m4 :
  Then(clearCanvas(m4, DefaultArg(clearColorArg, DefaultClearColor)), LAMBDA m5 :
    gl_drawArrays(m5, Enum("TRIANGLE_STRIP"), Num(0), Num(4)))))))

\* m1.ret is program
drawCanvas(m, bufferDataArg, attributesArg, shaderIdsArg, clearColorArg) ==
  Then(makeProgramFromScripts(m, DefaultArg(shaderIdsArg, DefaultShaderIds)), LAMBDA m1 :
    IF Failed(m1) THEN m1 ELSE
  Then(createBuffer(m1, m1.ret, Default(bufferDataArg, Null),
                    DefaultArg(attributesArg, Arr(<<>>)), Undefined, Undefined), LAMBDA m2 :
    IF Failed(m2) THEN m2 ELSE
  Then(gl_viewport(m2, Num(0), Num(0), Num(CanvasWidth), Num(CanvasHeight)), LAMBDA m3 :
  Then(clearCanvas(m3, DefaultArg(clearColorArg, DefaultClearColor)), LAMBDA m4 :
  Then(gl_useProgram(m4, m1.ret), LAMBDA m5 :
    gl_drawArrays(m5, Enum("TRIANGLE_STRIP"), Num(0), Num(4)))))))

(***************************************************************************)
(* Inputs of the calls.                                                    *)
(***************************************************************************)
FLOAT == Enum("FLOAT")
Pos2 == createAttribute(Str("pos"), Num(2), Num(2), FLOAT, Undefined, Undefined, Undefined)
Pos3 == createAttribute(Str("pos"), Num(3), Num(6), FLOAT, Undefined, Undefined, Undefined)
Uv2 == createAttribute(Str("uv"), Num(2), Num(6), FLOAT, Num(3), Undefined, Undefined)
Nope1 == createAttribute(Str("nope"), Num(1), Num(6), FLOAT, Num(5), Undefined, Undefined)

AttrLists == {Arr(<<>>), Arr(<<Pos2>>), Arr(<<Pos3, Uv2>>), Arr(<<Pos2, Pos2>>), Arr(<<Nope1, Pos3>>)}

Quad == F32("quad", 8)

RGBA(r, g, b, a) == Obj([r |-> Num(r), g |-> Num(g), b |-> Num(b), a |-> Num(a)])
ColorObject(r, g, b, a) == Obj([red |-> Num(r), green |-> Num(g), blue |-> Num(b), alpha |-> Num(a)])
Colors == {RGBA(1, 0, 0, 1), ColorObject(1, 0, 0, 1)}
ColorArgs == Colors \cup {UndefinedArg}

\* the script elements of the page, by id, with the shader source each holds
Page == [vertexShader |-> "v_ok", fragmentShader |-> "f_ok", badShader |-> "bad",
         noLink |-> "f_nolink", noVal |-> "f_noval"]

Ids(v, f) == Arr(<<Str(v), Str(f)>>)
FailingIds == {Ids("missing", "fragmentShader"), Ids("vertexShader", "missing"),
               Ids("badShader", "missing"), Ids("badShader", "fragmentShader"),
               Ids("vertexShader", "badShader"), Ids("vertexShader", "noLink"),
               Ids("vertexShader", "noVal")}
IdLists == FailingIds \cup {DefaultShaderIds}

\* the (bufferData, attributes) arguments of drawCanvas
BufferArgs == {<<Undefined, UndefinedArg>>, <<Quad, NullArg>>,
               <<Quad, Arr(<<Pos2>>)>>, <<Quad, Arr(<<Pos3, Uv2>>)>>}

\* the arguments of drawCanvas: every buffer and colour with the default
\* shader ids, and every failing pair of shader ids with one buffer and colour
DrawArgs ==
  {<<b[1], b[2], ids, color>> :
     b \in BufferArgs, ids \in {UndefinedArg, DefaultShaderIds}, color \in ColorArgs}
  \cup {<<Quad, Arr(<<Pos2>>), ids, RGBA(1, 0, 0, 1)>> : ids \in FailingIds}

\* the (source, type) arguments of makeShader
ShaderArgs == {<<"v_ok", Enum("VERTEX_SHADER")>>, <<"bad", Enum("VERTEX_SHADER")>>,
               <<"f_ok", Enum("FRAGMENT_SHADER")>>, <<"bad", Enum("FRAGMENT_SHADER")>>,
               <<"f_nolink", Enum("FRAGMENT_SHADER")>>, <<"f_noval", Enum("FRAGMENT_SHADER")>>}

(***************************************************************************)
(* The state machine: one action per call of a function.                   *)
(***************************************************************************)
LiveShaders(g) == {i \in 1..Len(g.shaders) : g.shaders[i].live}

Base(g) == [shader |-> Len(g.shaders), program |-> Len(g.programs),
            buffer |-> Len(g.buffers), live |-> Cardinality(LiveShaders(g))]

FreshContext(retainsLog) ==
  [shaders |-> <<>>, programs |-> <<>>, buffers |-> <<>>, arrayBuffer |-> 0,
   pointers |-> [l \in Locations |-> <<>>], enabled |-> {},
   clearColor |-> <<Num(0), Num(0), Num(0), Num(0)>>,
   viewport |-> <<Num(0), Num(0), Num(CanvasWidth), Num(CanvasHeight)>>,
   currentProgram |-> 0, retainsLog |-> retainsLog]

Start == [gl |-> gl, calls |-> <<>>, ret |-> Undefined, err |-> NoError]

Outcome(op, args, m) ==
  [op |-> op, args |-> args, calls |-> m.calls, ret |-> m.ret, err |-> m.err, base |-> Base(gl)]

\* a handle, counted from the handles that existed when the call began
Rebase(v, base) ==
  IF v.t \in {"shader", "program", "buffer"} THEN [v EXCEPT !.n = @ - base[v.t]] ELSE v

Normalize(calls, base) ==
  [i \in 1..Len(calls) |->
     [op |-> calls[i].op,
      args |-> [j \in 1..Len(calls[i].args) |-> Rebase(calls[i].args[j], base)],
      ret |-> Rebase(calls[i].ret, base)]]

NoCall == [op |-> "none", args |-> <<>>, calls |-> <<>>, ret |-> Undefined,
           err |-> NoError, base |-> Base(FreshContext(FALSE))]

Init ==
  /\ \E retainsLog \in BOOLEAN : gl = FreshContext(retainsLog)
  /\ document = Page
  /\ last = NoCall
  /\ draws = <<>>

MakeShader ==
  \E a \in ShaderArgs :
    /\ Len(gl.shaders) < MaxShaders
    /\ \E m \in {makeShader(Start, Str(a[1]), a[2])} :
          /\ gl' = m.gl
          /\ last' = Outcome("makeShader", [src |-> Str(a[1]), type |-> a[2]], m)
    /\ draws' = <<>>
    /\ UNCHANGED document

Compiled(type) ==
  {i \in LiveShaders(gl) : gl.shaders[i].status /\ gl.shaders[i].type = type}

MakeProgram ==
  \E vs \in Compiled("VERTEX_SHADER"), fs \in Compiled("FRAGMENT_SHADER"),
     validate \in {Undefined, True, False} :
    /\ Len(gl.programs) < MaxPrograms
    /\ \E m \in {makeProgram(Start, Handle("shader", vs), Handle("shader", fs), validate)} :
          /\ gl' = m.gl
          /\ last' = Outcome("makeProgram", [vs |-> vs, fs |-> fs, validate |-> validate], m)
    /\ draws' = <<>>
    /\ UNCHANGED document

MakeProgramFromScripts ==
  \E ids \in IdLists :
    /\ Len(gl.shaders) + 2 <= MaxShaders
    /\ Len(gl.programs) < MaxPrograms
    /\ \E m \in {makeProgramFromScripts(Start, ids)} :
          /\ gl' = m.gl
          /\ last' = Outcome("makeProgramFromScripts", [ids |-> ids], m)
    /\ draws' = <<>>
    /\ UNCHANGED document

\* the programs a caller holds: linked, and validated where validation ran
Usable == {i \in 1..Len(gl.programs) : gl.programs[i].linkStatus /\ gl.programs[i].validateStatus}

CreateBuffer ==
  \E program \in Usable, data \in {Null, Quad}, attrs \in AttrLists,
     type \in {Undefined, Enum("ARRAY_BUFFER")} :
    /\ Len(gl.buffers) < MaxBuffers
    /\ \E m \in {createBuffer(Start, Handle("program", program), data, attrs, type, Undefined)} :
          /\ gl' = m.gl
          /\ last' = Outcome("createBuffer",
                             [program |-> program, data |-> data, attrs |-> attrs, type |-> type], m)
    /\ draws' = <<>>
    /\ UNCHANGED document

ClearCanvas ==
  \E color \in Colors :
    /\ \E m \in {clearCanvas(Start, color)} :
          /\ gl' = m.gl
          /\ last' = Outcome("clearCanvas", [color |-> color], m)
    /\ draws' = <<>>
    /\ UNCHANGED document

DrawCanvas ==
  \E a \in DrawArgs :
    /\ Len(gl.shaders) + 2 <= 2 * MaxDraws
    /\ Len(gl.programs) < MaxDraws
    /\ Len(gl.buffers) < MaxDraws
    /\ \E m \in {drawCanvas(Start, a[1], a[2], a[3], a[4])} :
          LET args == [data |-> a[1], attrs |-> a[2], ids |-> a[3], color |-> a[4]]
              this == [args |-> args, calls |-> Normalize(m.calls, Base(gl)),
                       err |-> m.err, base |-> Base(gl)]
          IN /\ gl' = m.gl
             /\ last' = Outcome("drawCanvas", args, m)
             /\ draws' = IF Len(draws) = 2 THEN <<draws[2], this>> ELSE Append(draws, this)
    /\ UNCHANGED document

\* createAttribute is pure: the call leaves the context alone
CreateAttribute ==
  \E name \in {"pos", "uv"}, numElements \in 1..4, numVertex \in {2, 6},
     type \in {FLOAT, Enum("UNSIGNED_BYTE")}, offset \in {Undefined, Num(0), Num(3)},
     typeSize \in {Undefined, Num(1), Num(2)}, normalized \in {Undefined, True, False} :
    /\ last' = [NoCall EXCEPT
                  !.op = "createAttribute",
                  !.args = [name |-> Str(name), numElements |-> Num(numElements),
                            numVertex |-> Num(numVertex), type |-> type, offset |-> offset,
                            typeSize |-> typeSize, normalized |-> normalized],
                  !.ret = createAttribute(Str(name), Num(numElements), Num(numVertex), type,
                                          offset, typeSize, normalized)]
    /\ UNCHANGED <<gl, document, draws>>

(***************************************************************************)
(* Specifications.  Spec runs drawCanvas, the entry point; SpecShader the  *)
(* direct calls of makeShader and makeProgram; SpecScripts the direct      *)
(* calls of makeProgramFromScripts, createBuffer and clearCanvas;          *)
(* SpecAttribute the pure function createAttribute.                        *)
(***************************************************************************)
Next == DrawCanvas

Spec == Init /\ [][Next]_vars

NextShader ==
  \/ MakeShader
  \/ MakeProgram

SpecShader == Init /\ [][NextShader]_vars

NextScripts ==
  \/ MakeProgramFromScripts
  \/ CreateBuffer
  \/ ClearCanvas

SpecScripts == Init /\ [][NextScripts]_vars

NextAttribute == CreateAttribute

SpecAttribute == Init /\ [][NextAttribute]_vars

(***************************************************************************)
(* Reading a recorded call sequence.                                       *)
(***************************************************************************)
Ops(calls) == [i \in 1..Len(calls) |-> calls[i].op]
Where(calls, op) == {i \in 1..Len(calls) : calls[i].op = op}
Count(calls, op) == Cardinality(Where(calls, op))
IsHandle(v, kind) == v.t = kind /\ v.n >= 1

ShaderOps == <<"createShader", "shaderSource", "compileShader", "getShaderParameter">>
ProgramOps == <<"createProgram", "attachShader", "attachShader", "linkProgram",
                "getProgramParameter", "validateProgram", "getProgramParameter">>
BufferOps == <<"createBuffer", "bindBuffer", "bufferData">>
AttrOps == <<"getAttribLocation", "vertexAttribPointer", "enableVertexAttribArray">>
FrameOps == <<"viewport", "clearColor", "clear", "useProgram", "drawArrays">>

RECURSIVE Repeat(_, _)
Repeat(seq, n) == IF n = 0 THEN <<>> ELSE seq \o Repeat(seq, n - 1)

\* the attribute list a drawCanvas call works on
AttrsOf(arg) == IF arg.t = "undefined" THEN <<>> ELSE arg.items

(***************************************************************************)
(* C1: a drawCanvas call that succeeds issues, in this order: the compile  *)
(* of the vertex shader, the compile of the fragment shader, the link (and *)
(* validation), the buffer upload and the configuration of every           *)
(* attribute, viewport(0, 0, width, height), clearColor, clear, useProgram *)
(* on the program created in this call, and last one                       *)
(* drawArrays(TRIANGLE_STRIP, 0, 4); nothing follows the draw call.        *)
(***************************************************************************)
C1_DrawOrder ==
  (last.op = "drawCanvas" /\ last.err = NoError) =>
    LET c == last.calls
        n == Len(c)
        k == Len(AttrsOf(last.args.attrs))
        program == c[9].ret
    IN /\ Ops(c) = ShaderOps \o ShaderOps \o ProgramOps \o BufferOps
                   \o Repeat(AttrOps, k) \o FrameOps
       /\ c[1].args = <<Enum("VERTEX_SHADER")>>
       /\ c[5].args = <<Enum("FRAGMENT_SHADER")>>
       /\ IsHandle(program, "program") /\ program.n > last.base.program
       /\ c[n - 4].args = <<Num(0), Num(0), Num(CanvasWidth), Num(CanvasHeight)>>
       /\ c[n - 2].args = <<Enum("COLOR_BUFFER_BIT")>>
       /\ c[n - 1].args = <<program>>
       /\ c[n].args = <<Enum("TRIANGLE_STRIP"), Num(0), Num(4)>>
       /\ Where(c, "drawArrays") = {n}

C1_Witness ==
  /\ last.op = "drawCanvas" /\ last.err = NoError
  /\ Len(AttrsOf(last.args.attrs)) = 2
  /\ last.calls[Len(last.calls)].op = "drawArrays"
  /\ gl.currentProgram = Len(gl.programs)

(***************************************************************************)
(* C2: makeShader returns the shader it created and deletes nothing when   *)
(* the compile status is successful; it deletes exactly the shader it      *)
(* created, and fails, when the status is unsuccessful.  So the live       *)
(* shaders of the context are as many as the calls that returned.          *)
(***************************************************************************)
C2_NoLeak ==
  /\ (last.op = "makeShader") =>
       LET c == last.calls
           created == c[1].ret
           live == Cardinality(LiveShaders(gl))
       IN /\ created = Handle("shader", last.base.shader + 1)
          /\ IF Truthy(c[4].ret)
             THEN /\ last.err = NoError /\ last.ret = created
                  /\ Count(c, "deleteShader") = 0
                  /\ live = last.base.live + 1
             ELSE /\ last.err.name = "Error" /\ last.ret = Undefined
                  /\ Count(c, "deleteShader") = 1
                  /\ \A i \in Where(c, "deleteShader") : c[i].args = <<created>>
                  /\ live = last.base.live
  /\ LiveShaders(gl) = {i \in 1..Len(gl.shaders) : gl.shaders[i].status}

C2_Witness ==
  /\ last.op = "makeShader" /\ last.err # NoError
  /\ last.base.live >= 1
  /\ Cardinality(LiveShaders(gl)) = last.base.live
  /\ Len(gl.shaders) = last.base.shader + 1

(***************************************************************************)
(* C3: the error of a failed makeShader carries the shader kind and the    *)
(* log the context recorded for the failed shader, read while the shader   *)
(* was still live.                                                         *)
(***************************************************************************)
C3_ErrorCarriesLiveLog ==
  (last.op = "makeShader" /\ last.err # NoError) =>
    LET c == last.calls
    IN /\ last.err.kind = (IF last.args.type = Enum("VERTEX_SHADER") THEN "vertex" ELSE "fragment")
       /\ last.err.log = Str(CompileLog(last.args.src.s))
       /\ \A i \in Where(c, "getShaderInfoLog"), j \in Where(c, "deleteShader") : i < j

(***************************************************************************)
(* C4: makeProgram calls validateProgram only when the link succeeded and  *)
(* validate is true (the default).  A failed link fails with the link      *)
(* error and no validation; validate = false returns the linked program    *)
(* whatever validation would have said; a failed validation fails with     *)
(* the validation error.                                                   *)
(***************************************************************************)
C4_ValidateOnlyWhenAsked ==
  (last.op = "makeProgram") =>
    LET c == last.calls
        program == c[1].ret
        p == gl.programs[program.n]
        linked == Truthy(c[5].ret)
        asked == last.args.validate # False
        valid == Validates(SrcOf(gl, last.args.vs), SrcOf(gl, last.args.fs))
    IN /\ Count(c, "validateProgram") = (IF linked /\ asked THEN 1 ELSE 0)
       /\ linked = Links(SrcOf(gl, last.args.vs), SrcOf(gl, last.args.fs))
       /\ ~linked => last.err = Error("ERROR linking program: ", "", Str("link failed"))
       /\ (linked /\ ~asked) => (last.err = NoError /\ last.ret = program)
       /\ (linked /\ asked /\ ~valid) =>
            last.err = Error("ERROR validating program: ", "", Str("validation failed"))
       /\ (linked /\ asked /\ valid) => (last.err = NoError /\ last.ret = program)

C4_Witness ==
  /\ last.op = "makeProgram" /\ last.args.validate = False
  /\ ~Validates(SrcOf(gl, last.args.vs), SrcOf(gl, last.args.fs))
  /\ last.err = NoError /\ IsHandle(last.ret, "program")
  /\ Count(last.calls, "validateProgram") = 0

(***************************************************************************)
(* C5: createAttribute returns name, size = numElements, type and          *)
(* normalized as given, stride = numVertex * typeSize and                  *)
(* offset = offset * typeSize, with the defaults offset = 0, typeSize = 4  *)
(* and normalized = false; ("pos", 3, 6, FLOAT) gives stride 24 and        *)
(* offset 0, ("uv", 2, 6, FLOAT, 3) gives offset 12.                       *)
(***************************************************************************)
C5_Descriptor ==
  /\ (last.op = "createAttribute") =>
       LET a == last.args
           typeSize == IF a.typeSize = Undefined THEN 4 ELSE a.typeSize.n
           offset == IF a.offset = Undefined THEN 0 ELSE a.offset.n
       IN last.ret = [name |-> a.name, size |-> a.numElements, type |-> a.type,
                      normalized |-> IF a.normalized = Undefined THEN False ELSE a.normalized,
                      stride |-> Num(a.numVertex.n * typeSize),
                      offset |-> Num(offset * typeSize)]
  /\ Pos3 = [name |-> Str("pos"), size |-> Num(3), stride |-> Num(24), offset |-> Num(0),
             type |-> FLOAT, normalized |-> False]
  /\ Uv2.offset = Num(12)

C5_Witness ==
  /\ last.op = "createAttribute"
  /\ last.args.offset = Num(3) /\ last.args.typeSize = Undefined /\ last.args.numVertex = Num(6)
  /\ last.ret.offset = Num(12) /\ last.ret.stride = Num(24)

(***************************************************************************)
(* C6.  What a createBuffer call does with its N descriptors.              *)
(***************************************************************************)
\* the locations a call sequence enabled in the context
EnabledBy(calls) ==
  {calls[i].args[1].n : i \in Where(calls, "enableVertexAttribArray")} \cap Locations

\* the calls made for the i-th descriptor are those its fields dictate
AttrCallsMatch(c, program, items, i) ==
  LET at == 3 * i + 1
      attr == items[i]
      loc == Num(AttribLoc(attr.name.s))
  IN /\ c[at].op = "getAttribLocation"
     /\ c[at].args = <<program, attr.name>>
     /\ c[at].ret = loc
     /\ c[at + 1].op = "vertexAttribPointer"
     /\ c[at + 1].args = <<loc, attr.size, attr.type, attr.normalized, attr.stride, attr.offset>>
     /\ c[at + 2].op = "enableVertexAttribArray"
     /\ c[at + 2].args = <<loc>>

BufferCallsMatch ==
  LET c == last.calls
      items == last.args.attrs.items
      N == Len(items)
      buffer == Handle("buffer", last.base.buffer + 1)
  IN /\ Len(c) = 3 + 3 * N
     /\ c[1].op = "createBuffer" /\ c[1].ret = buffer
     /\ c[2].op = "bindBuffer" /\ c[2].args = <<Enum("ARRAY_BUFFER"), buffer>>
     /\ c[3].op = "bufferData"
     /\ c[3].args = <<Enum("ARRAY_BUFFER"), last.args.data, Enum("STATIC_DRAW")>>
     /\ \A i \in 1..N : AttrCallsMatch(c, Handle("program", last.args.program), items, i)
     /\ Count(c, "vertexAttribPointer") = N
     /\ Count(c, "enableVertexAttribArray") = N

\* C6 as stated: createBuffer creates, binds and fills one buffer, then makes
\* for each of the N descriptors, in order, the getAttribLocation,
\* vertexAttribPointer and enableVertexAttribArray calls its fields dictate,
\* so that exactly N attribute locations end up enabled and configured.
C6_ExactlyNLocations ==
  (last.op = "createBuffer") =>
    /\ BufferCallsMatch
    /\ Cardinality(EnabledBy(last.calls)) = Len(last.args.attrs.items)

\* C6 as amended: the N vertexAttribPointer and N enableVertexAttribArray
\* calls are made as stated; the locations that end up enabled are the
\* distinct valid locations the descriptors' names resolve to, which are N
\* exactly when the names resolve to N different valid locations.
C6_NCallsPerDescriptor ==
  (last.op = "createBuffer") =>
    LET items == last.args.attrs.items
        N == Len(items)
        locs == {AttribLoc(items[i].name.s) : i \in 1..N} \cap Locations
        distinctValid == /\ \A i \in 1..N : AttribLoc(items[i].name.s) \in Locations
                         /\ \A i, j \in 1..N :
                              i # j => AttribLoc(items[i].name.s) # AttribLoc(items[j].name.s)
    IN /\ BufferCallsMatch
       /\ EnabledBy(last.calls) = locs
       /\ locs \subseteq gl.enabled
       /\ \A l \in locs : gl.pointers[l] # <<>>
       /\ Cardinality(locs) <= N
       /\ (Cardinality(locs) = N) <=> distinctValid

C6_Witness ==
  /\ last.op = "createBuffer"
  /\ Len(last.args.attrs.items) = 2
  /\ Count(last.calls, "enableVertexAttribArray") = 2
  /\ EnabledBy(last.calls) = {0, 1}
  /\ gl.pointers[1] = <<Num(2), FLOAT, False, Num(24), Num(12)>>

(***************************************************************************)
(* C7.  How makeProgramFromScripts fails.                                  *)
(***************************************************************************)
Missing(id) == id.s \notin DOMAIN document
SourceOf(id) == IF Missing(id) THEN "" ELSE document[id.s]
MissingElement == TypeError("Cannot read properties of null (reading 'textContent')")
CompileError(kind, src) ==
  Error("ERROR compiling ${kind} shader: ${log}", kind,
        IF gl.retainsLog THEN Str(CompileLog(src)) ELSE Null)

\* C7 as stated: makeProgramFromScripts fails with the missing-element error
\* whenever either of the two shader ids resolves to no element.
C7_MissingElementWhenever ==
  (last.op = "makeProgramFromScripts") =>
    LET ids == last.args.ids.items
    IN (Missing(ids[1]) \/ Missing(ids[2])) => last.err = MissingElement

\* C7 as amended: makeProgramFromScripts fails whenever either id resolves
\* to no element; the failure is the missing-element one (a TypeError) when
\* the vertex id is missing, or when the fragment id is missing and the
\* vertex shader compiled; when the vertex shader does not compile, the
\* compile error is raised and the fragment id is never looked up.  The
\* compile, link and validate errors reach the caller as they were raised.
C7_MissingElementInOrder ==
  (last.op = "makeProgramFromScripts") =>
    LET ids == last.args.ids.items
        v == SourceOf(ids[1])
        f == SourceOf(ids[2])
        c == last.calls
    IN /\ (Missing(ids[1]) \/ Missing(ids[2])) => last.err # NoError
       /\ last.err =
            CASE Missing(ids[1]) -> MissingElement
              [] ~Missing(ids[1]) /\ ~Compiles(v) -> CompileError("vertex", v)
              [] ~Missing(ids[1]) /\ Compiles(v) /\ Missing(ids[2]) -> MissingElement
              [] ~Missing(ids[1]) /\ Compiles(v) /\ ~Missing(ids[2]) /\ ~Compiles(f) ->
                   CompileError("fragment", f)
              [] OTHER ->
                   IF ~Links(v, f) THEN Error("ERROR linking program: ", "", Str("link failed"))
                   ELSE IF ~Validates(v, f)
                        THEN Error("ERROR validating program: ", "", Str("validation failed"))
                        ELSE NoError
       /\ Missing(ids[1]) => c = <<>>
       /\ (~Missing(ids[1]) /\ ~Compiles(v)) => Count(c, "createShader") = 1
       /\ (~Missing(ids[1]) /\ Compiles(v) /\ Missing(ids[2])) => Ops(c) = ShaderOps

C7_Witness ==
  /\ last.op = "makeProgramFromScripts"
  /\ last.args.ids = Ids("vertexShader", "missing")
  /\ last.err = MissingElement
  /\ Ops(last.calls) = ShaderOps
  /\ Cardinality(LiveShaders(gl)) = last.base.live + 1

(***************************************************************************)
(* C8: clearCanvas, given a colour with the components red, green, blue    *)
(* and alpha, calls clearColor(red, green, blue, alpha) and then           *)
(* clear(COLOR_BUFFER_BIT); a drawCanvas call without a colour clears to   *)
(* (0, 0, 0, 0).                                                           *)
(***************************************************************************)
IsColorObject(color) == {"red", "green", "blue", "alpha"} \subseteq DOMAIN color.props

C8_ClearsToColor ==
  /\ (last.op = "clearCanvas" /\ IsColorObject(last.args.color)) =>
       LET color == last.args.color
       IN /\ Ops(last.calls) = <<"clearColor", "clear">>
          /\ last.calls[1].args =
               <<Get(color, "red"), Get(color, "green"), Get(color, "blue"), Get(color, "alpha")>>
          /\ last.calls[2].args = <<Enum("COLOR_BUFFER_BIT")>>
  /\ (last.op = "drawCanvas" /\ last.err = NoError /\ last.args.color = UndefinedArg) =>
       \A i \in Where(last.calls, "clearColor") :
         last.calls[i].args = <<Num(0), Num(0), Num(0), Num(0)>>

(***************************************************************************)
(* C9: two drawCanvas calls in succession with identical inputs make       *)
(* identical call sequences: the same operations in the same order with    *)
(* the same arguments, each call's handles counted from the handles that   *)
(* existed when it began.                                                  *)
(***************************************************************************)
C9_SameCallsTwice ==
  (Len(draws) = 2 /\ draws[1].args = draws[2].args) =>
    /\ draws[1].calls = draws[2].calls
    /\ draws[1].err = draws[2].err

C9_Witness ==
  /\ Len(draws) = 2 /\ draws[1].args = draws[2].args
  /\ draws[1].base.shader = 0 /\ draws[1].base.buffer = 0
  /\ draws[2].base.shader = 2 /\ draws[2].base.buffer = 1
  /\ draws[2].err = NoError
  /\ Len(AttrsOf(draws[2].args.attrs)) = 2
  /\ Len(draws[2].calls) = 29
  /\ draws[2].calls = Normalize(last.calls, last.base)

(***************************************************************************)
(* C10: when the program build or the buffer upload of a drawCanvas call   *)
(* fails, the failure reaches the caller as it was raised and no viewport, *)
(* clearColor, clear, useProgram or drawArrays call is made; the only      *)
(* resource released is a shader that did not compile, so the shaders that *)
(* compiled, the program and the buffer stay allocated.                    *)
(***************************************************************************)
C10_FailureStopsTheFrame ==
  (last.op = "drawCanvas" /\ last.err # NoError) =>
    LET c == last.calls
        n == Len(c)
        compiled == {i \in Where(c, "getShaderParameter") : Truthy(c[i].ret)}
    IN /\ \A i \in 1..n : c[i].op \notin {"viewport", "clearColor", "clear", "useProgram", "drawArrays"}
       /\ \/ /\ last.err.name = "TypeError"
             /\ \/ n = 0
                \/ c[n].op = "getShaderParameter" /\ Truthy(c[n].ret)
                \/ c[n].op = "bufferData"
          \/ /\ last.err.name = "Error"
             /\ last.err.log = c[n].ret
             /\ \/ /\ c[n].op = "getShaderInfoLog"
                   /\ last.err.kind = (IF Count(c, "createShader") = 1 THEN "vertex" ELSE "fragment")
                \/ /\ c[n].op = "getProgramInfoLog"
                   /\ last.err.msg = (IF Count(c, "validateProgram") = 0
                                      THEN "ERROR linking program: "
                                      ELSE "ERROR validating program: ")
       /\ \A i \in Where(c, "deleteShader") : ~gl.shaders[c[i].args[1].n].status
       /\ Count(c, "deleteShader") = Count(c, "createShader") - Cardinality(compiled)
       /\ Cardinality(LiveShaders(gl)) = last.base.live + Cardinality(compiled)
       /\ Len(gl.programs) = last.base.program + Count(c, "createProgram")
       /\ Len(gl.buffers) = last.base.buffer + Count(c, "createBuffer")

C10_Witness ==
  /\ last.op = "drawCanvas"
  /\ last.args.ids = Ids("vertexShader", "badShader")
  /\ last.err.name = "Error" /\ last.err.kind = "fragment"
  /\ Count(last.calls, "deleteShader") = 1
  /\ Cardinality(LiveShaders(gl)) = last.base.live + 1
  /\ Count(last.calls, "viewport") = 0

====
